---- MODULE Spec2Model ----
(***************************************************************************)
(* sugargap: the contract-roll selector (update_contracts.py), the sugar   *)
(* contracts pipeline (update_contracts.py main) and the EUR/USD exchange  *)
(* rate pipeline (update_exchange_rate.py main), as one state machine.     *)
(*                                                                         *)
(* Prices are in hundredths (1950 is 19.50), rates in ten-thousandths.     *)
(***************************************************************************)
EXTENDS Integers, Sequences, FiniteSets, TLC

\* ------------------------------------------------------------------ bounds
\* Longest daily price series the provider returns.
MaxSeries == 2
\* Number of distinct instants the record timestamp can take.
MaxClock == 2
\* Years past the reference year that the chronological enumeration of all
\* quarterly contracts is carried to.
Horizon == 3
\* Direct calls of the selector in one behaviour.
MaxCalls == 3

\* ------------------------------------------------------------------ state
VARIABLES
    pipeline,          \* "contracts", "exchange", or "selector" (a direct call)
    pc,                \* position in main
    env,               \* the process environment, name -> value
    now,               \* datetime.now() at the start of the run
    reference_date,    \* argument of get_current_contract_names
    day,               \* day of the month of that argument
    history,           \* earlier direct calls of the selector, oldest first
    contract_symbols,  \* main: contract_symbols
    contracts_data,    \* main: contracts_data
    fetched,           \* what fetch_contract_price returned, call by call
    last_df,           \* what the provider did in the fetch just made
    response,          \* what requests.get gave fetch_exchange_rate
    rate,              \* main: rate
    netCalls,          \* external calls made so far, in order
    inserts,           \* records passed to insert(...).execute(), in order
    result_data,       \* how the insert ended: "", "raise", "ack", "empty"
    rows,              \* rows this run added to the store
    logged,            \* log lines written, by kind
    exitCode           \* process exit code, -1 while running

vars ==
    << pipeline, pc, env, now, reference_date, day, history,
       contract_symbols, contracts_data, fetched, last_df, response, rate,
       netCalls, inserts, result_data, rows, logged, exitCode >>

\* ------------------------------------------------------------ the selector
\* CONTRACT_MONTHS, in list order.
CONTRACT_MONTHS ==
    << [code |-> "H", month |-> 3],
       [code |-> "K", month |-> 5],
       [code |-> "N", month |-> 7],
       [code |-> "V", month |-> 10] >>

\* reference_date = None
None == [year |-> 0, month |-> 0]

Digits == << "0", "1", "2", "3", "4", "5", "6", "7", "8", "9" >>

\* str(y) for a non-negative int
RECURSIVE Str(_)
Str(n) ==
    IF n < 10 THEN Digits[n + 1]
    ELSE Str(n \div 10) \o Digits[(n % 10) + 1]

\* s[-2:]
LastTwo(s) ==
    IF Len(s) <= 2 THEN s ELSE SubSeq(s, Len(s) - 1, Len(s))

\* f"SB{code}{str(y)[-2:]}"
Symbol(code, y) == "SB" \o code \o LastTwo(Str(y))

\* for y in (year, year + 1)
ScanYears_OnlyCurrent(year) == << year >>

ScanYears(year) == << year, year + 1 >>

\* the skip test of the inner loop: y == year and contract_month <= month
Expired_Strict(y, year, contract_month, month) ==
    y = year /\ contract_month < month

Expired_AnyYear(y, year, contract_month, month) ==
    contract_month <= month

Expired(y, year, contract_month, month) ==
    y = year /\ contract_month <= month

\* The two nested loops, flattened: step k visits year index (k-1) \div 4 + 1
\* and CONTRACT_MONTHS entry (k-1) % 4 + 1; contracts is the list so far.
RECURSIVE Scan(_, _, _, _)
Scan(year, month, k, contracts) ==
    LET years == ScanYears(year)
        n     == Len(CONTRACT_MONTHS)
    IN  IF k > Len(years) * n THEN contracts
        ELSE LET y  == years[((k - 1) \div n) + 1]
                 cm == CONTRACT_MONTHS[((k - 1) % n) + 1]
             IN  IF Expired(y, year, cm.month, month)
                 THEN Scan(year, month, k + 1, contracts)
                 ELSE LET appended == Append(contracts, Symbol(cm.code, y))
                      IN  IF Len(appended) = 3 THEN appended
                          ELSE Scan(year, month, k + 1, appended)

\* A datetime argument: the year, the month and the day of the month.
DateTime(d, dom) ==
    IF d = None THEN None
    ELSE [year |-> d.year, month |-> d.month, day |-> dom]

\* get_current_contract_names(reference_date), clock being datetime.now();
\* contracts = [] is a fresh list in every call.
get_current_contract_names_Carry(date, clock) ==
    LET d == IF date = None THEN clock ELSE date
    IN  Scan(d.year, d.month, 1, contract_symbols)

get_current_contract_names(date, clock) ==
    LET d == IF date = None THEN clock ELSE date
    IN  Scan(d.year, d.month, 1, << >>)

\* ------------------------------------------------------- python values
\* A value that is a float or None (the "no price" sentinel).
PyNone == [none |-> TRUE, val |-> 0]

PyFloat(v) == [none |-> FALSE, val |-> v]

\* ------------------------------------------------------------ environment
\* os.getenv(name): UNSET is None, "" is set but empty.
EnvValues == { "UNSET", "", "v" }

ContractsVars ==
    { "SUPABASE_URL", "SUPABASE_SERVICE_ROLE_KEY",
      "BARCHART_USERNAME", "BARCHART_PASSWORD" }

ExchangeVars ==
    { "SUPABASE_URL", "SUPABASE_SERVICE_ROLE_KEY", "ALPHA_VANTAGE_API_KEY" }

RequiredVars(p) == IF p = "contracts" THEN ContractsVars ELSE ExchangeVars

\* `not value` for a getenv result
Falsy(value) == value = "UNSET" \/ value = ""

\* Days of the month a reference date can fall on.
Days == { 1, 28 }

\* datetime.now() at the start of a run
ClockDates ==
    { [year |-> y, month |-> m] : y \in { 2024 }, m \in 1 .. 12 }

\* Reference dates handed to the selector directly: the clock's dates and
\* years at the edges of str(y)[-2:].
SelDates ==
    ClockDates \cup
    { [year |-> y, month |-> m] : y \in { 9, 99, 2099, 9999 }, m \in 1 .. 12 }

\* Close values of a provider series.
Closes == { 1950, 2010, 1875, -25 }

\* Sequences over S of length 0 .. n
SeqUpTo(S, n) == UNION { [1 .. k -> S] : k \in 0 .. n }

\* What get_historical_prices_for_contract can do: raise, return None, or
\* return a frame whose Close column is a (possibly empty) series.
NoOutcome == [kind |-> "", close |-> << >>]

ProviderOutcomes ==
    { [kind |-> "raise", close |-> << >>], [kind |-> "none", close |-> << >>] }
    \cup { [kind |-> "df", close |-> c] : c \in SeqUpTo(Closes, MaxSeries) }

\* fetch_contract_price, given what the provider did for the symbol
fetch_contract_price_ZeroOnError(df) ==
    IF df.kind = "raise" THEN PyFloat(0)
    ELSE IF df.kind = "none" \/ Len(df.close) = 0 THEN PyNone
    ELSE PyFloat(df.close[Len(df.close)])

fetch_contract_price(df) ==
    IF df.kind = "raise" THEN PyNone
    ELSE IF df.kind = "none" \/ Len(df.close) = 0 THEN PyNone
    ELSE PyFloat(df.close[Len(df.close)])

\* Body of main's fetch loop for one symbol: the new contracts_data and
\* whether sys.exit(1) is called.
LoopBody_KeepGoing(symbol, price, data) ==
    [data |-> Append(data, [symbol |-> symbol, price |-> price]), exit |-> FALSE]

LoopBody(symbol, price, data) ==
    IF ~price.none
    THEN [data |-> Append(data, [symbol |-> symbol, price |-> price]),
          exit |-> FALSE]
    ELSE [data |-> data, exit |-> TRUE]

\* datetime.now().isoformat(), the day and time of day abstracted to a tick
Pad2(n) == IF n < 10 THEN "0" \o Str(n) ELSE Str(n)

IsoFormat(d, tick) == Str(d.year) \o "-" \o Pad2(d.month) \o "T" \o Str(tick)

\* contract_record of update_supabase_contracts
ContractRecord_Swapped(data, timestamp) ==
    [contract_name_1 |-> data[1].symbol, contract_1 |-> data[2].price,
     contract_name_2 |-> data[2].symbol, contract_2 |-> data[1].price,
     contract_name_3 |-> data[3].symbol, contract_3 |-> data[3].price,
     timestamp |-> timestamp]

ContractRecord(data, timestamp) ==
    [contract_name_1 |-> data[1].symbol, contract_1 |-> data[1].price,
     contract_name_2 |-> data[2].symbol, contract_2 |-> data[2].price,
     contract_name_3 |-> data[3].symbol, contract_3 |-> data[3].price,
     timestamp |-> timestamp]

\* What supabase.table(t).insert(r).execute() can do: raise, return with
\* row data, or return with empty data.
InsertOutcomes == { "raise", "ack", "empty" }

\* ------------------------------------------------ the exchange-rate fetch
IsDigits(s) ==
    Len(s) > 0 /\ \A i \in 1 .. Len(s) :
        \E d \in 1 .. 10 : Digits[d] = SubSeq(s, i, i)

DigitVal(c) == (CHOOSE d \in 1 .. 10 : Digits[d] = c) - 1

RECURSIVE NatOf(_)
NatOf(s) ==
    IF Len(s) = 0 THEN 0
    ELSE 10 * NatOf(SubSeq(s, 1, Len(s) - 1)) + DigitVal(SubSeq(s, Len(s), Len(s)))

\* float(text) for plain decimal text [-]digits[.digits] with at most four
\* fraction digits, in ten-thousandths; any other text here is a ValueError.
ParseFloat(text) ==
    LET neg   == Len(text) > 0 /\ SubSeq(text, 1, 1) = "-"
        body  == IF neg THEN SubSeq(text, 2, Len(text)) ELSE text
        dots  == { i \in 1 .. Len(body) : SubSeq(body, i, i) = "." }
        dot   == IF dots = {} THEN Len(body) + 1 ELSE CHOOSE i \in dots : TRUE
        whole == SubSeq(body, 1, dot - 1)
        frac  == SubSeq(body, dot + 1, Len(body))
        pad   == frac \o SubSeq("0000", 1, 4 - Len(frac))
        ok    == /\ Cardinality(dots) <= 1
                 /\ IsDigits(whole)
                 /\ (dots = {} \/ IsDigits(frac))
                 /\ Len(frac) <= 4
        mag   == NatOf(whole) * 10000 + NatOf(pad)
    IN  IF ok THEN [ok |-> TRUE, val |-> IF neg THEN 0 - mag ELSE mag]
        ELSE [ok |-> FALSE, val |-> 0]

\* Texts the provider puts in "5. Exchange Rate".
RateTexts == { "1.0850", "0.9", "0", "-1.0850", "N/A" }

\* A response of requests.get: net is "error" when the transport fails
\* (RequestException); http_ok is raise_for_status passing; json_ok is the
\* body being JSON; top, has_rate and has_refreshed are the presence of
\* 'Realtime Currency Exchange Rate', '5. Exchange Rate' and
\* '6. Last Refreshed'. Fields past the first failure carry no information
\* and are FALSE or "".
Response(n, h, j, t, r, x, f) ==
    [net |-> n, http_ok |-> h, json_ok |-> j, top |-> t, has_rate |-> r,
     rate_text |-> x, has_refreshed |-> f]

NoResponse == Response("none", FALSE, FALSE, FALSE, FALSE, "", FALSE)

Responses ==
    { Response("error", FALSE, FALSE, FALSE, FALSE, "", FALSE),
      Response("ok", FALSE, FALSE, FALSE, FALSE, "", FALSE),
      Response("ok", TRUE, FALSE, FALSE, FALSE, "", FALSE),
      Response("ok", TRUE, TRUE, FALSE, FALSE, "", FALSE) }
    \cup { Response("ok", TRUE, TRUE, TRUE, FALSE, "", f) : f \in BOOLEAN }
    \cup { Response("ok", TRUE, TRUE, TRUE, TRUE, x, f) :
             x \in RateTexts, f \in BOOLEAN }

Raised(type) == [exc |-> type, rate |-> 0]

\* fetch_exchange_rate after the API key check: the exception it raises
\* ("none" when it returns) and the rate it returns.
fetch_exchange_rate_Swallow(resp) ==
    IF /\ resp.net = "ok" /\ resp.http_ok /\ resp.json_ok /\ resp.top
       /\ resp.has_rate /\ ParseFloat(resp.rate_text).ok /\ resp.has_refreshed
    THEN [exc |-> "none", rate |-> ParseFloat(resp.rate_text).val]
    ELSE [exc |-> "none", rate |-> 0]

fetch_exchange_rate(resp) ==
    IF resp.net = "error" THEN Raised("RequestException")
    ELSE IF ~resp.http_ok THEN Raised("HTTPError")
    ELSE IF ~resp.json_ok THEN Raised("JSONDecodeError")
    ELSE IF ~resp.top THEN Raised("ValueError")
    ELSE IF ~resp.has_rate THEN Raised("KeyError")
    ELSE IF ~ParseFloat(resp.rate_text).ok THEN Raised("ValueError")
    ELSE IF ~resp.has_refreshed THEN Raised("KeyError")
    ELSE [exc |-> "none", rate |-> ParseFloat(resp.rate_text).val]

\* The record update_supabase_exchange_rate inserts
ExchangeRecord(r, timestamp) == [exchange |-> r, timestamp |-> timestamp]

\* Values before main has assigned anything.
Blank ==
    /\ contract_symbols = << >>
    /\ contracts_data = << >>
    /\ fetched = << >>
    /\ last_df = NoOutcome
    /\ history = << >>
    /\ response = NoResponse
    /\ rate = PyNone
    /\ netCalls = << >>
    /\ inserts = << >>
    /\ result_data = ""
    /\ rows = << >>
    /\ logged = {}
    /\ exitCode = -1

\* A run of either entry point: no arguments, configuration from the
\* environment, the clock anywhere in ClockDates.
Init ==
    /\ pipeline \in { "contracts", "exchange" }
    /\ pc = "start"
    /\ env \in [RequiredVars(pipeline) -> EnvValues]
    /\ now \in ClockDates
    /\ reference_date = None
    /\ day = 1
    /\ Blank

\* The process ends with exit code `code` after logging `lines`.
Exit_Restart(code, lines) ==
    /\ pc' = IF code = 0 THEN "exit" ELSE "start"
    /\ exitCode' = IF code = 0 THEN 0 ELSE exitCode
    /\ logged' = logged \cup lines

Exit(code, lines) ==
    /\ pc' = "exit"
    /\ exitCode' = code
    /\ logged' = logged \cup lines

\* main's `except Exception` clause: log the failure, sys.exit(1).
MainExcept == Exit(1, { "update failed" })

\* get_barchart_credentials: TRUE when it raises ValueError
get_barchart_credentials_raises(e) ==
    Falsy(e["BARCHART_USERNAME"]) \/ Falsy(e["BARCHART_PASSWORD"])

\* get_supabase_client: TRUE when the credential test raises ValueError
get_supabase_client_raises_NoCheck(e) == FALSE

get_supabase_client_raises(e) ==
    Falsy(e["SUPABASE_URL"]) \/ Falsy(e["SUPABASE_SERVICE_ROLE_KEY"])

\* fetch_exchange_rate: TRUE when the API key test raises ValueError
api_key_missing(e) == Falsy(e["ALPHA_VANTAGE_API_KEY"])

\* ---------------------------------------------------- contracts pipeline
\* main: contract_symbols = get_current_contract_names()
C_Select ==
    /\ pipeline = "contracts" /\ pc = "start"
    /\ contract_symbols' =
          get_current_contract_names(DateTime(reference_date, day), now)
    /\ logged' = logged \cup { "starting" }
    /\ pc' = "credentials"
    /\ UNCHANGED << day, history, last_df >>
    /\ UNCHANGED << pipeline, env, now, reference_date, contracts_data,
                    fetched, response, rate, netCalls, inserts, result_data,
                    rows, exitCode >>

\* main: credentials = get_barchart_credentials()
C_Credentials ==
    /\ pipeline = "contracts" /\ pc = "credentials"
    /\ IF get_barchart_credentials_raises(env)
       THEN MainExcept
       ELSE pc' = "session" /\ UNCHANGED << logged, exitCode >>
    /\ UNCHANGED << day, history, last_df >>
    /\ UNCHANGED << pipeline, env, now, reference_date, contract_symbols,
                    contracts_data, fetched, response, rate, netCalls, inserts,
                    result_data, rows >>

\* main: session = create_bc_session(credentials), which returns or raises
C_CreateSession ==
    /\ pipeline = "contracts" /\ pc = "session"
    /\ netCalls' = Append(netCalls, "create_bc_session")
    /\ \E ok \in BOOLEAN :
          IF ok
          THEN pc' = "fetch" /\ UNCHANGED << logged, exitCode >>
          ELSE MainExcept
    /\ UNCHANGED << day, history, last_df >>
    /\ UNCHANGED << pipeline, env, now, reference_date, contract_symbols,
                    contracts_data, fetched, response, rate, inserts, result_data,
                    rows >>

\* main: one iteration of `for symbol in contract_symbols`; the symbol is
\* the one after those fetched so far.
C_Fetch ==
    /\ pipeline = "contracts" /\ pc = "fetch"
    /\ Len(fetched) < Len(contract_symbols)
    /\ LET symbol == contract_symbols[Len(fetched) + 1]
       IN  \E outcome \in ProviderOutcomes :
             LET price == fetch_contract_price(outcome)
                 step  == LoopBody(symbol, price, contracts_data)
             IN  /\ netCalls' = Append(netCalls, "get_historical_prices")
                 /\ last_df' = outcome
                 /\ fetched' = Append(fetched, [symbol |-> symbol, price |-> price])
                 /\ contracts_data' = step.data
                 /\ IF step.exit
                    THEN Exit(1, { "fetch failed" })
                    ELSE UNCHANGED << pc, logged, exitCode >>
    /\ UNCHANGED << day, history >>
    /\ UNCHANGED << pipeline, env, now, reference_date, contract_symbols,
                    response, rate, inserts, result_data, rows >>

\* main: the loop is over (the frame of the last fetch is gone with the
\* call that held it); validate the count, then get_supabase_client(),
\* whose create_client returns or raises.
C_Client ==
    /\ pipeline = "contracts" /\ pc = "fetch"
    /\ Len(fetched) = Len(contract_symbols)
    /\ IF Len(contracts_data) # 3
       THEN Exit(1, { "expected 3" })
       ELSE IF get_supabase_client_raises(env)
       THEN MainExcept
       ELSE \E ok \in BOOLEAN :
              IF ok
              THEN pc' = "update" /\ UNCHANGED << logged, exitCode >>
              ELSE MainExcept
    /\ last_df' = NoOutcome
    /\ UNCHANGED << day, history >>
    /\ UNCHANGED << pipeline, env, now, reference_date, contract_symbols,
                    contracts_data, fetched, response, rate, netCalls, inserts,
                    result_data, rows >>

\* What follows execute() in update_supabase_* and then in main: the exit
\* code and the log lines, by how the insert ended.
AfterInsert(outcome) ==
    IF outcome = "raise"
    THEN [code |-> 1, lines |-> { "failed to update supabase", "update failed" }]
    ELSE IF outcome = "ack"
    THEN [code |-> 0, lines |-> { "updated in supabase", "completed successfully" }]
    ELSE [code |-> 0, lines |-> { "failed to insert", "completed successfully" }]

\* supabase.table(table).insert(record).execute() and the rest of the run.
\* Only an acknowledged insert is known to have stored the row; with a raise
\* or empty data the row may or may not be in the store.
InsertAndFinish(table, record) ==
    \E outcome \in InsertOutcomes, stored \in BOOLEAN :
        /\ outcome = "ack" => stored
        /\ netCalls' = Append(netCalls, "insert")
        /\ inserts' = Append(inserts, [table |-> table, record |-> record])
        /\ result_data' = outcome
        /\ rows' = IF stored THEN Append(rows, record) ELSE rows
        /\ Exit(AfterInsert(outcome).code, AfterInsert(outcome).lines)

\* main: update_supabase_contracts(supabase, contracts_data) and the end
C_Update ==
    /\ pipeline = "contracts" /\ pc = "update"
    /\ IF Len(contracts_data) # 3
       THEN /\ Exit(1, { "expected exactly 3", "failed to update supabase",
                         "update failed" })
            /\ UNCHANGED << netCalls, inserts, result_data, rows >>
       ELSE \E tick \in 1 .. MaxClock :
              InsertAndFinish("contracts",
                              ContractRecord(contracts_data, IsoFormat(now, tick)))
    /\ UNCHANGED << day, history, last_df >>
    /\ UNCHANGED << pipeline, env, now, reference_date, contract_symbols,
                    contracts_data, fetched, response, rate >>

\* -------------------------------------------------- exchange-rate pipeline
\* main: rate = fetch_exchange_rate()
X_Fetch ==
    /\ pipeline = "exchange" /\ pc = "start"
    /\ IF api_key_missing(env)
       THEN /\ Exit(1, { "starting", "update failed" })
            /\ UNCHANGED << response, rate, netCalls >>
       ELSE \E resp \in Responses :
              LET r == fetch_exchange_rate(resp)
              IN  /\ netCalls' = Append(netCalls, "requests.get")
                  /\ response' = resp
                  /\ IF r.exc # "none"
                     THEN /\ Exit(1, { "starting", "update failed" })
                          /\ UNCHANGED rate
                     ELSE /\ rate' = PyFloat(r.rate)
                          /\ pc' = "client"
                          /\ logged' = logged \cup { "starting" }
                          /\ UNCHANGED exitCode
    /\ UNCHANGED << day, history, last_df >>
    /\ UNCHANGED << pipeline, env, now, reference_date, contract_symbols,
                    contracts_data, fetched, inserts, result_data, rows >>

\* main: supabase = get_supabase_client(); create_client returns, raises
\* TypeError (then the positional fallback returns or raises), or raises
\* something else.
X_Client ==
    /\ pipeline = "exchange" /\ pc = "client"
    /\ IF get_supabase_client_raises(env)
       THEN MainExcept
       ELSE \E first \in { "ok", "TypeError", "raise" }, fallback \in BOOLEAN :
              IF first = "ok" \/ (first = "TypeError" /\ fallback)
              THEN pc' = "update" /\ UNCHANGED << logged, exitCode >>
              ELSE MainExcept
    /\ UNCHANGED << day, history, last_df >>
    /\ UNCHANGED << pipeline, env, now, reference_date, contract_symbols,
                    contracts_data, fetched, response, rate, netCalls, inserts,
                    result_data, rows >>

\* main: update_supabase_exchange_rate(supabase, rate) and the end
X_Update ==
    /\ pipeline = "exchange" /\ pc = "update"
    /\ \E tick \in 1 .. MaxClock :
          InsertAndFinish("exchangerate",
                          ExchangeRecord(rate, IsoFormat(now, tick)))
    /\ UNCHANGED << day, history, last_df >>
    /\ UNCHANGED << pipeline, env, now, reference_date, contract_symbols,
                    contracts_data, fetched, response, rate >>

Next ==
    \/ C_Select
    \/ C_Credentials
    \/ C_CreateSession
    \/ C_Fetch
    \/ C_Client
    \/ C_Update
    \/ X_Fetch
    \/ X_Client
    \/ X_Update

Spec == Init /\ [][Next]_vars

\* ------------------------------------------- the selector called directly
\* get_current_contract_names(reference_date) with a date or with None;
\* datetime.now() is read only in a call with None.
SelInit ==
    /\ pipeline = "selector"
    /\ pc = "call"
    /\ env = << >>
    /\ reference_date \in SelDates \cup { None }
    /\ now \in IF reference_date = None
               THEN ClockDates
               ELSE { [year |-> 2024, month |-> 1] }
    /\ day \in Days
    /\ Blank

SelCall ==
    /\ pipeline = "selector" /\ pc = "call"
    /\ contract_symbols' =
          get_current_contract_names(DateTime(reference_date, day), now)
    /\ pc' = "returned"
    /\ UNCHANGED << day, history, last_df >>
    /\ UNCHANGED << pipeline, env, now, reference_date, contracts_data,
                    fetched, response, rate, netCalls, inserts, result_data,
                    rows, logged, exitCode >>

\* The month after d; datetime has no year past 9999.
HasSuccessor(d) == d.year < 9999 \/ d.month < 12

Successor(d) ==
    IF d.month = 12 THEN [year |-> d.year + 1, month |-> 1]
    ELSE [year |-> d.year, month |-> d.month + 1]

\* One more call after an earlier one has returned: either with the same
\* year and month on any day, or a month later on the same day. Without an
\* argument it is the clock that is the same or a month later. The earlier
\* call goes to history.
SelAgain ==
    /\ pipeline = "selector" /\ pc = "returned"
    /\ Len(history) < MaxCalls - 1
    /\ history' = Append(history,
                         [date |-> IF reference_date = None THEN now
                                   ELSE reference_date,
                          day  |-> day,
                          out  |-> contract_symbols])
    /\ \E later \in BOOLEAN, d \in Days :
          /\ later => (d = day /\ HasSuccessor(IF reference_date = None THEN now
                                                ELSE reference_date))
          /\ day' = d
          /\ IF reference_date = None
             THEN /\ now' = IF later THEN Successor(now) ELSE now
                  /\ UNCHANGED reference_date
                  /\ contract_symbols' = get_current_contract_names(None, now')
             ELSE /\ reference_date' = IF later THEN Successor(reference_date)
                                        ELSE reference_date
                  /\ UNCHANGED now
                  /\ contract_symbols' =
                        get_current_contract_names(DateTime(reference_date', d), now)
    /\ UNCHANGED << pipeline, pc, env, contracts_data, fetched, last_df,
                    response, rate, netCalls, inserts, result_data, rows,
                    logged, exitCode >>

SelNext == SelCall \/ SelAgain

SelSpec == SelInit /\ [][SelNext]_vars

\* ------------------------------------------------ reading a symbol back
\* The date the selector worked from.
RefDate == IF reference_date = None THEN now ELSE reference_date

CodeOf(sym) == SubSeq(sym, 3, 3)

SuffixOf(sym) == SubSeq(sym, 4, Len(sym))

CodeIndexes(code) ==
    { i \in 1 .. Len(CONTRACT_MONTHS) : CONTRACT_MONTHS[i].code = code }

\* Years among the reference year and the next that a symbol can stand for.
YearsOf(sym) ==
    { y \in { RefDate.year, RefDate.year + 1 } : LastTwo(Str(y)) = SuffixOf(sym) }

Decodable(sym) ==
    /\ Len(sym) >= 4
    /\ SubSeq(sym, 1, 2) = "SB"
    /\ Cardinality(CodeIndexes(CodeOf(sym))) = 1
    /\ Cardinality(YearsOf(sym)) = 1

\* The (year, code order, expiry month) a decodable symbol stands for.
Contract(sym) ==
    LET i == CHOOSE j \in CodeIndexes(CodeOf(sym)) : TRUE
    IN  [year  |-> CHOOSE y \in YearsOf(sym) : TRUE,
         order |-> i,
         month |-> CONTRACT_MONTHS[i].month]

Before(a, b) == a.year < b.year \/ (a.year = b.year /\ a.order < b.order)

Returned == pipeline = "selector" /\ pc = "returned"

\* C1: for every reference date the selector returns exactly 3 symbols,
\* strictly increasing by (year, quarterly code order), each unexpired: of
\* the next year, or of the reference year with expiry month > M.
C1_ThreeIncreasingUnexpired ==
    Returned =>
        /\ Len(contract_symbols) = 3
        /\ \A k \in 1 .. 3 : Decodable(contract_symbols[k])
        /\ \A k \in 1 .. 2 :
              Before(Contract(contract_symbols[k]), Contract(contract_symbols[k + 1]))
        /\ \A k \in 1 .. 3 :
              LET c == Contract(contract_symbols[k])
              IN  \/ c.year = RefDate.year + 1
                  \/ c.year = RefDate.year /\ c.month > RefDate.month

C1_Witness ==
    /\ Returned
    /\ reference_date = [year |-> 2024, month |-> 5]
    /\ contract_symbols = << "SBN24", "SBV24", "SBH25" >>

\* All quarterly contracts of years Y .. Y + Horizon, in chronological order.
Chronological(Y) ==
    [k \in 1 .. 4 * (Horizon + 1) |->
        [year  |-> Y + ((k - 1) \div 4),
         order |-> ((k - 1) % 4) + 1,
         month |-> CONTRACT_MONTHS[((k - 1) % 4) + 1].month]]

\* Those of them that satisfy year > Y or expiry month > M.
UnexpiredFrom(Y, M) ==
    LET Open(c) == c.year > Y \/ c.month > M
    IN  SelectSeq(Chronological(Y), Open)

\* C5: the output equals the first 3 contracts of the open-ended
\* chronological enumeration that are unexpired at (Y, M).
C5_FirstThreeOfEnumeration ==
    Returned =>
        LET want == SubSeq(UnexpiredFrom(RefDate.year, RefDate.month), 1, 3)
        IN  /\ Len(contract_symbols) = Len(want)
            /\ \A k \in 1 .. Len(want) :
                  /\ Decodable(contract_symbols[k])
                  /\ Contract(contract_symbols[k]) = want[k]

C5_Witness ==
    /\ Returned
    /\ reference_date = [year |-> 2099, month |-> 12]
    /\ contract_symbols = << "SBH00", "SBK00", "SBN00" >>

\* The quarterly contract after entry i of year Y.
NextQuarterly(i, Y) ==
    IF i < Len(CONTRACT_MONTHS)
    THEN [year |-> Y, order |-> i + 1, month |-> CONTRACT_MONTHS[i + 1].month]
    ELSE [year |-> Y + 1, order |-> 1, month |-> CONTRACT_MONTHS[1].month]

\* C6: when the reference month is a contract's expiry month, that contract
\* of the reference year is not in the output and the first symbol is the
\* next quarterly contract (March of Y gives May of Y first).
C6_ExpiryMonthExcluded ==
    Returned =>
        \A i \in 1 .. Len(CONTRACT_MONTHS) :
            CONTRACT_MONTHS[i].month = RefDate.month =>
                /\ Len(contract_symbols) >= 1
                /\ \A k \in 1 .. Len(contract_symbols) :
                      /\ Decodable(contract_symbols[k])
                      /\ ~ ( /\ Contract(contract_symbols[k]).year = RefDate.year
                             /\ Contract(contract_symbols[k]).order = i )
                /\ Contract(contract_symbols[1]) = NextQuarterly(i, RefDate.year)

C6_Witness ==
    /\ Returned
    /\ reference_date = [year |-> 2024, month |-> 3]
    /\ contract_symbols[1] = "SBK24"

\* C7: in November and December the selector returns exactly the next
\* year's H, K, N, in that order.
C7_YearEndRoll ==
    (Returned /\ RefDate.month \in { 11, 12 }) =>
        /\ Len(contract_symbols) = 3
        /\ \A k \in 1 .. 3 :
              /\ Decodable(contract_symbols[k])
              /\ Contract(contract_symbols[k]).year = RefDate.year + 1
        /\ << CodeOf(contract_symbols[1]), CodeOf(contract_symbols[2]),
              CodeOf(contract_symbols[3]) >> = << "H", "K", "N" >>

C7_Witness ==
    /\ Returned
    /\ reference_date = [year |-> 2024, month |-> 11]
    /\ contract_symbols = << "SBH25", "SBK25", "SBN25" >>

\* ------------------------------------------------------ pipeline claims
Exited == pc = "exit"

Populated(r) ==
    ~r.contract_1.none /\ ~r.contract_2.none /\ ~r.contract_3.none

\* C2: in the contracts pipeline, once the fetch of the i-th selected symbol
\* (any i in 1..3) has returned "no price", the run has ended with a nonzero
\* exit code and insert was called 0 times; and every record passed to
\* insert has all 3 slots populated.
C2_NoPriceNoInsert ==
    pipeline = "contracts" =>
        /\ \A i \in 1 .. Len(fetched) :
              fetched[i].price.none =>
                  /\ inserts = << >>
                  /\ Exited
                  /\ exitCode > 0
        /\ \A j \in 1 .. Len(inserts) : Populated(inserts[j].record)

C2_Witness ==
    /\ pipeline = "contracts"
    /\ Len(fetched) = 3
    /\ ~fetched[1].price.none /\ ~fetched[2].price.none
    /\ fetched[3].price.none
    /\ Exited /\ exitCode = 1 /\ inserts = << >>

\* C3 as stated: in both pipelines an insert that returns empty data ends
\* the run as a failure: nonzero exit code, never reported as success.
C3_EmptyAckIsFailure ==
    (result_data = "empty" /\ Exited) =>
        /\ exitCode > 0
        /\ "completed successfully" \notin logged

Missing(name) == name \in DOMAIN env /\ Falsy(env[name])

ProviderVars ==
    { "BARCHART_USERNAME", "BARCHART_PASSWORD", "ALPHA_VANTAGE_API_KEY" }

StoreVars == { "SUPABASE_URL", "SUPABASE_SERVICE_ROLE_KEY" }

C8_SlotsInSelectionOrder ==
    pipeline = "contracts" =>
        \A j \in 1 .. Len(inserts) :
            LET r == inserts[j].record
            IN  /\ Len(fetched) = 3 /\ Len(contract_symbols) = 3
                /\ \A k \in 1 .. 3 : fetched[k].symbol = contract_symbols[k]
                /\ r.contract_name_1 = contract_symbols[1]
                /\ r.contract_1 = fetched[1].price
                /\ r.contract_name_2 = contract_symbols[2]
                /\ r.contract_2 = fetched[2].price
                /\ r.contract_name_3 = contract_symbols[3]
                /\ r.contract_3 = fetched[3].price
                /\ DOMAIN r = { "contract_name_1", "contract_1", "contract_name_2",
                                "contract_2", "contract_name_3", "contract_3",
                                "timestamp" }
                /\ Len(r.timestamp) > 0
                /\ ( /\ now = [year |-> 2024, month |-> 2]
                     /\ << fetched[1].price, fetched[2].price, fetched[3].price >>
                            = << PyFloat(1950), PyFloat(2010), PyFloat(1875) >> )
                   => /\ << r.contract_name_1, r.contract_name_2, r.contract_name_3 >>
                            = << "SBH24", "SBK24", "SBN24" >>
                      /\ << r.contract_1.val, r.contract_2.val, r.contract_3.val >>
                            = << 1950, 2010, 1875 >>

C8_Witness ==
    /\ pipeline = "contracts"
    /\ now = [year |-> 2024, month |-> 2]
    /\ Len(inserts) = 1
    /\ inserts[1].table = "contracts"
    /\ inserts[1].record.contract_name_1 = "SBH24"
    /\ inserts[1].record.contract_1 = PyFloat(1950)
    /\ inserts[1].record.contract_name_2 = "SBK24"
    /\ inserts[1].record.contract_2 = PyFloat(2010)
    /\ inserts[1].record.contract_name_3 = "SBN24"
    /\ inserts[1].record.contract_3 = PyFloat(1875)

\* The failures of the rate fetch that C9 names: the network call fails,
\* the response is not well-formed, or the expected nested field is absent.
RateFetchFailed(resp) ==
    \/ resp.net = "error"
    \/ resp.net = "ok" /\ ~resp.http_ok
    \/ resp.net = "ok" /\ resp.http_ok /\ ~resp.json_ok
    \/ resp.net = "ok" /\ resp.http_ok /\ resp.json_ok /\ ~resp.top
    \/ resp.net = "ok" /\ resp.http_ok /\ resp.json_ok /\ resp.top /\ ~resp.has_rate

\* C9: in the exchange-rate pipeline a failed rate fetch aborts the run:
\* insert is never invoked and the process exits nonzero.
C9_RateFailureAborts ==
    (pipeline = "exchange" /\ RateFetchFailed(response)) =>
        /\ inserts = << >>
        /\ \A k \in 1 .. Len(netCalls) : netCalls[k] # "insert"
        /\ Exited
        /\ exitCode > 0

C9_Witness ==
    /\ pipeline = "exchange"
    /\ response = Response("ok", TRUE, TRUE, FALSE, FALSE, "", FALSE)
    /\ netCalls = << "requests.get" >>
    /\ inserts = << >>
    /\ Exited /\ exitCode = 1 /\ "update failed" \in logged

\* C10 as stated: every run performs at most one insert and no other store
\* operation, and every run that ends with exit code 0 has added exactly one
\* row to the store.
C10_OneInsertOneRow ==
    /\ Len(inserts) <= 1
    /\ Cardinality({ k \in 1 .. Len(netCalls) : netCalls[k] = "insert" }) = Len(inserts)
    /\ (Exited /\ exitCode = 0) => Len(rows) = 1

\* ------------------------------------------------- claims C11 .. C19
\* The direct calls made so far, the latest last.
Calls ==
    Append(history, [date |-> RefDate, day |-> day, out |-> contract_symbols])

C12_FetcherSwallows ==
    /\ (pipeline = "contracts" /\ last_df # NoOutcome) =>
          /\ Len(fetched) >= 1
          /\ LET p == fetched[Len(fetched)].price
             IN  IF last_df.kind = "df" /\ Len(last_df.close) > 0
                 THEN ~p.none /\ p.val = last_df.close[Len(last_df.close)]
                 ELSE /\ p.none
                      /\ Exited /\ exitCode = 1
                      /\ "fetch failed" \in logged
                      /\ "update failed" \notin logged
    /\ (pipeline = "exchange" /\ RateFetchFailed(response)) =>
          /\ rate = PyNone
          /\ Exited /\ exitCode = 1
          /\ "update failed" \in logged

C12_Witness ==
    /\ pipeline = "contracts"
    /\ last_df.kind = "raise"
    /\ Len(fetched) = 2
    /\ fetched[2].price = PyNone
    /\ Exited /\ exitCode = 1 /\ "fetch failed" \in logged

\* C13: the price fetches go in selection order, one per symbol, and a
\* fetch that returned "no price" is the last fetch of the run.
C13_SequentialFailFast ==
    pipeline = "contracts" =>
        /\ Len(fetched) <= Len(contract_symbols)
        /\ \A k \in 1 .. Len(fetched) : fetched[k].symbol = contract_symbols[k]
        /\ \A k \in 1 .. Len(fetched), l \in 1 .. Len(fetched) :
              fetched[k].symbol = fetched[l].symbol => k = l
        /\ Cardinality({ k \in 1 .. Len(netCalls) :
                           netCalls[k] = "get_historical_prices" }) = Len(fetched)
        /\ \A k \in 1 .. Len(fetched) : fetched[k].price.none => k = Len(fetched)

C13_Witness ==
    /\ pipeline = "contracts"
    /\ Len(contract_symbols) = 3
    /\ Len(fetched) = 2
    /\ ~fetched[1].price.none /\ fetched[2].price.none
    /\ netCalls = << "create_bc_session", "get_historical_prices",
                     "get_historical_prices" >>
    /\ Exited

\* Position along START -> SELECT -> FETCH[1..N] -> BUILD_RECORD -> PERSIST
\* -> terminal; it grows with every step of a run.
PcRank ==
    CASE pc = "start" -> 0
      [] pc = "credentials" -> 1
      [] pc = "session" -> 2
      [] pc = "fetch" -> 3
      [] pc = "client" -> 3
      [] pc = "update" -> 4
      [] pc = "exit" -> 5
      [] OTHER -> 0

Progress == 4 * PcRank + Len(fetched)

Done ==
    /\ Exited /\ exitCode = 0
    /\ Len(inserts) = 1 /\ result_data \in { "ack", "empty" }
    /\ pipeline = "contracts" => (Len(fetched) = 3 /\ Len(contracts_data) = 3)
    /\ pipeline = "exchange" => ~rate.none

Abort == Exited /\ exitCode > 0 /\ inserts = << >> /\ rows = << >>

PersistFailure == Exited /\ exitCode > 0 /\ Len(inserts) = 1

NoPartialRecord ==
    /\ Len(rows) <= 1
    /\ \A k \in 1 .. Len(rows) :
          /\ rows[k] = inserts[1].record
          /\ pipeline = "contracts" => Populated(rows[k])

C16_NonNegativePrice ==
    pipeline = "contracts" =>
        /\ \A k \in 1 .. Len(contracts_data) : contracts_data[k].price.val >= 0
        /\ \A j \in 1 .. Len(inserts) :
              /\ inserts[j].record.contract_1.val >= 0
              /\ inserts[j].record.contract_2.val >= 0
              /\ inserts[j].record.contract_3.val >= 0

\* C17 as stated: for a reference year in 1 .. 9998 every symbol is "SB",
\* one code letter of H, K, N, V, and the two digits of the zero-padded
\* contract year mod 100, the contract year being Y or Y + 1.
C17_TwoDigitYear ==
    (Returned /\ RefDate.year \in 1 .. 9998) =>
        \A k \in 1 .. Len(contract_symbols) :
            \E y \in { RefDate.year, RefDate.year + 1 }, code \in { "H", "K", "N", "V" } :
                /\ Len(contract_symbols[k]) = 5
                /\ contract_symbols[k] = "SB" \o code \o Pad2(y % 100)

\* C18: in a run of main the count checks never fire: when the fetch loop
\* is over contracts_data holds exactly 3 entries, so neither main's
\* 'Expected 3 contract prices' exit nor the ValueError of
\* update_supabase_contracts is taken.
C18_CountChecksUnreachable ==
    pipeline = "contracts" =>
        /\ (pc = "fetch" /\ Len(fetched) = Len(contract_symbols)) =>
              Len(contracts_data) = 3
        /\ pc = "update" => Len(contracts_data) = 3
        /\ "expected 3" \notin logged
        /\ "expected exactly 3" \notin logged

C18_Witness ==
    /\ pipeline = "contracts"
    /\ pc = "update"
    /\ Len(fetched) = 3
    /\ Len(contracts_data) = 3

\* Reading a symbol back against a given reference year.
YearsOfAt(sym, Y) ==
    { y \in { Y, Y + 1 } : LastTwo(Str(y)) = SuffixOf(sym) }

DecodableAt(sym, Y) ==
    /\ Len(sym) >= 4
    /\ SubSeq(sym, 1, 2) = "SB"
    /\ Cardinality(CodeIndexes(CodeOf(sym))) = 1
    /\ Cardinality(YearsOfAt(sym, Y)) = 1

ContractAt(sym, Y) ==
    LET i == CHOOSE j \in CodeIndexes(CodeOf(sym)) : TRUE
    IN  [year  |-> CHOOSE y \in YearsOfAt(sym, Y) : TRUE,
         order |-> i,
         month |-> CONTRACT_MONTHS[i].month]

\* The contracts a direct call returned.
Selected(call) ==
    [k \in 1 .. Len(call.out) |-> ContractAt(call.out[k], call.date.year)]

Range(f) == { f[x] : x \in DOMAIN f }

\* C19: the roll is monotone: from a month to the next the output stays
\* the same or drops its first contract and appends the next quarterly
\* contract; over the calls of a run the front contract never moves back
\* and a contract once dropped is not selected again.
C19_RollMonotone ==
    Returned =>
        LET calls == Calls
            N == Len(calls)
        IN  /\ \A n \in 1 .. N :
                  /\ Len(calls[n].out) = 3
                  /\ \A k \in 1 .. 3 : DecodableAt(calls[n].out[k], calls[n].date.year)
            /\ LET sel == [n \in 1 .. N |-> Selected(calls[n])]
               IN  /\ \A n \in 1 .. N - 1 :
                         calls[n + 1].date = Successor(calls[n].date) =>
                             \/ sel[n + 1] = sel[n]
                             \/ /\ sel[n + 1][1] = sel[n][2]
                                /\ sel[n + 1][2] = sel[n][3]
                                /\ sel[n + 1][3] =
                                       NextQuarterly(sel[n][3].order, sel[n][3].year)
                   /\ \A n \in 1 .. N, m \in 1 .. N :
                         n < m => ~Before(sel[m][1], sel[n][1])
                   /\ \A n \in 1 .. N, m \in 1 .. N, l \in 1 .. N :
                         (n < m /\ m < l) =>
                             \A x \in Range(sel[n]) :
                                 x \notin Range(sel[m]) => x \notin Range(sel[l])

C19_Witness ==
    /\ Returned
    /\ Len(history) = 2
    /\ history[1].date = [year |-> 2024, month |-> 4]
    /\ history[1].out = << "SBK24", "SBN24", "SBV24" >>
    /\ history[2].date = [year |-> 2024, month |-> 5]
    /\ history[2].out = << "SBN24", "SBV24", "SBH25" >>
    /\ reference_date = [year |-> 2024, month |-> 6]
    /\ contract_symbols = << "SBN24", "SBV24", "SBH25" >>

====
